---- MODULE Spec2Model ----
(***************************************************************************)
(* Interview session lifecycle and scoring of MOCKPRO                      *)
(* (src/server/controllers/interviewController.ts, src/shared/schema.ts).  *)
(*                                                                         *)
(* The state is the persistent store: the interview_sessions,              *)
(* interview_responses and ai_feedback tables, each a sequence whose index *)
(* is the serial primary key.  Decimal columns are decimal(5,2); a decimal *)
(* value is held as an integer number of hundredths (6667 is 66.67) and    *)
(* every write to such a column rounds to two decimals as the store does.  *)
(* The handlers compute in binary floating point: a value that lies        *)
(* exactly between two hundredths reaches the store a hair above or below  *)
(* the half, so it is kept as either neighbour; ties records which, per    *)
(* list of scores averaged, because equal inputs always convert alike.     *)
(* Texts are sequences of one-character strings, so that toLowerCase and   *)
(* split(' ') are computed character by character.                         *)
(*                                                                         *)
(* Spec runs the three handlers one request at a time (each action is a    *)
(* whole handler); result is the last request with the HTTP status it got. *)
(* SpecClock is Spec with time passing between the requests.  SpecScorer   *)
(* applies the scoring code of submitAnswer to every pair of texts of a    *)
(* bounded set.  SpecSteps and SpecFaults run submitAnswer and complete    *)
(* store call by store call (calls holds the invocations in flight), and   *)
(* SpecProgress does so for getUserProgress and updateUserGoals over the   *)
(* user_progress table (progress).                                         *)
(***************************************************************************)
EXTENDS Integers, Sequences, FiniteSets, TLC

VARIABLES sessions, responses, feedback, now, result, scorer, ties, calls,
          progress

vars ==
    <<sessions, responses, feedback, now, result, scorer, ties, calls, progress>>

store == <<sessions, responses, feedback>>

(***************************************************************************)
(* Bounds of the model.                                                    *)
(***************************************************************************)
MaxSessions == 2
MaxResponses == 2
MaxFeedback == 2
MaxTime == 1
MaxWords == 2
MaxCalls == 2
MaxProgress == 3

(***************************************************************************)
(* Values of the program.                                                  *)
(***************************************************************************)
\* A null column / an absent number.
NoValue == -1

\* An absent (undefined or null) text.
NoText == <<"undefined">>

\* The caller of a request that carries no verified identity (req.user unset).
Anonymous == 0

Users == {1, 2}

Callers == Users \cup {Anonymous}

Types == {"technical"}

\* One hundred, as a decimal(5,2) value in hundredths.
Hundred == 10000

Range(s) == {s[i] : i \in 1..Len(s)}

Min(a, b) == IF a <= b THEN a ELSE b

RECURSIVE Sum(_)
Sum(s) == IF s = <<>> THEN 0 ELSE Head(s) + Sum(Tail(s))

(***************************************************************************)
(* Texts.                                                                  *)
(***************************************************************************)
abc == <<"a", "b", "c">>
abd == <<"a", "b", "d">>
xyz == <<"x", "y", "z">>
Abc == <<"A", "b", "c">>
ab == <<"a", "b">>
abe == <<"a", "b", "e">>
xyw == <<"x", "y", "w">>

Space == <<" ">>

RECURSIVE JoinWords(_)
JoinWords(ws) ==
    IF ws = <<>> THEN <<>>
    ELSE IF Len(ws) = 1 THEN ws[1]
    ELSE ws[1] \o Space \o JoinWords(Tail(ws))

\* String.prototype.toLowerCase, on the letters the model uses.
LowerChar(c) ==
    CASE c = "A" -> "a"
      [] c = "B" -> "b"
      [] c = "C" -> "c"
      [] c = "D" -> "d"
      [] c = "X" -> "x"
      [] c = "Y" -> "y"
      [] c = "Z" -> "z"
      [] OTHER -> c

toLowerCase(text) == [i \in 1..Len(text) |-> LowerChar(text[i])]

\* String.prototype.split(' '): cut at every single space character; an empty
\* text gives one empty token, two adjacent spaces give an empty token.
RECURSIVE SplitRec(_, _)
SplitRec(text, cur) ==
    IF text = <<>> THEN <<cur>>
    ELSE IF Head(text) = " " THEN <<cur>> \o SplitRec(Tail(text), <<>>)
    ELSE SplitRec(Tail(text), Append(cur, Head(text)))

split(text) == SplitRec(text, <<>>)

\* JavaScript truthiness of an optional string: undefined, null and '' are falsy.
Truthy(text) == text # NoText /\ text # <<>>

(***************************************************************************)
(* decimal(5,2) columns.                                                   *)
(***************************************************************************)
\* num/den (in hundredths, num >= 0, den > 0) lies exactly between two
\* hundredths.
IsTie(num, den) ==
    /\ (2 * num) % den = 0
    /\ ((2 * num) \div den) % 2 = 1

\* The JavaScript number num/den (in hundredths, num >= 0, den > 0) written
\* with toString() into a decimal(5,2) column: rounded to the nearest
\* hundredth; at a tie the lower neighbour plus up (0 or 1).
ToDecimal(num, den, up) ==
    IF IsTie(num, den)
    THEN num \div den + up
    ELSE (2 * num + den) \div (2 * den)

(***************************************************************************)
(* Scoring (submitAnswer lines 207-216, calculateTextSimilarity).          *)
(***************************************************************************)
LongWords(text) == SelectSeq(split(text), LAMBDA w : Len(w) > 2)

\* The similarity as the fraction <<numerator, denominator>>.
calculateTextSimilarity(text1, text2) ==
    LET words1 == LongWords(text1)
        words2 == LongWords(text2)
        intersection == SelectSeq(words1, LAMBDA word : word \in Range(words2))
        union == Range(words1) \cup Range(words2)
    IN  IF Cardinality(union) > 0
        THEN <<Len(intersection), Cardinality(union)>>
        ELSE <<0, 1>>

\* The threshold is met, not exceeded: similarity >= 0.6.
IsCorrect_Inclusive(similarity) == 5 * similarity[1] >= 3 * similarity[2]

\* similarity > 0.6, on the fraction (a quotient of two word counts is on the
\* same side of 0.6 in binary floating point as it is exactly).
IsCorrect(similarity) == 5 * similarity[1] > 3 * similarity[2]

\* score (as stored in interview_responses.score) and isCorrect.  A score is a
\* tie only when the union holds 32 words or more, and 1/32 * 100 = 3.125 is
\* exact in binary and is rounded up by the store.
ScoreAnswer(userAnswer, expectedAnswer) ==
    IF Truthy(expectedAnswer) /\ Truthy(userAnswer)
    THEN LET similarity == calculateTextSimilarity(toLowerCase(userAnswer),
                                                   toLowerCase(expectedAnswer))
         IN  [score |-> ToDecimal(similarity[1] * Hundred, similarity[2], 1),
              isCorrect |-> IsCorrect(similarity)]
    ELSE [score |-> 0, isCorrect |-> FALSE]

(***************************************************************************)
(* The question catalogue (interview_questions), read-only to the core.    *)
(***************************************************************************)
Questions ==
    (1 :> JoinWords(<<abc, abd, xyz>>)) @@ (2 :> NoText)

\* A question id that resolves to no question.
MissingQuestion == 9

QuestionIds == DOMAIN Questions \cup {MissingQuestion}

\* The questionIds of a start request: omitted, or a list of ids.
NoList == <<0>>

QuestionIdLists == {NoList, <<1, MissingQuestion>>}

\* The userAnswer of a submitAnswer request.
UserAnswers ==
    { NoText,
      JoinWords(<<abc, abd>>),
      JoinWords(<<Abc, abd, xyz>>),
      JoinWords(<<abc, abc, abc, abc>>),
      JoinWords(<<abc, abd, xyz, abe, xyw>>) }

\* The grading of every answer of the model against every question.
Graded ==
    [q \in DOMAIN Questions |->
        [a \in UserAnswers |-> ScoreAnswer(a, Questions[q])]]

(***************************************************************************)
(* Initial state: empty tables.                                            *)
(***************************************************************************)
NoResult ==
    [op |-> "none", userId |-> Anonymous, sessionId |-> 0, code |-> 0]

\* No conversion has met a tie yet.
NoTies == [scores \in {} |-> 0]

IdleScorer ==
    [userAnswer |-> NoText, expectedAnswer |-> NoText, scored |-> FALSE,
     score |-> 0, isCorrect |-> FALSE]

\* The handler invocations that can be in flight at once.
Slots == 1..MaxCalls

\* No invocation in flight in a slot.
IdleCall ==
    [op |-> "none", pc |-> "idle", userId |-> Anonymous, sessionId |-> 0,
     questionId |-> 0, userAnswer |-> NoText, loaded |-> <<>>, before |-> <<>>,
     weeklyGoal |-> NoValue, monthlyGoal |-> NoValue]

NoCalls == [c \in Slots |-> IdleCall]

Init ==
    /\ sessions = <<>>
    /\ responses = <<>>
    /\ feedback = <<>>
    /\ now = 0
    /\ result = NoResult
    /\ scorer = IdleScorer
    /\ ties = NoTies
    /\ calls = NoCalls
    /\ progress = <<>>

Reply(op, userId, sessionId, code) ==
    [op |-> op, userId |-> userId, sessionId |-> sessionId, code |-> code]

\* The ownership test dropped: the session is looked up by its id alone.
SessionOf_AnyOwner(sessionId, userId) ==
    {i \in 1..Len(sessions) : i = sessionId}

\* db.select().from(interviewSessions).where(id = sessionId AND userId = userId)
SessionOf(sessionId, userId) ==
    {i \in 1..Len(sessions) : i = sessionId /\ sessions[i].userId = userId}

\* The session filter dropped: every stored response is loaded.
ResponsesOf_AllSessions(sessionId) == responses

\* db.select().from(interviewResponses).where(sessionId = sessionId)
ResponsesOf(sessionId) ==
    SelectSeq(responses, LAMBDA r : r.sessionId = sessionId)

(***************************************************************************)
(* startInterviewSession                                                   *)
(***************************************************************************)
\* Only the ids that name a question of the catalogue are counted.
TotalQuestions_ExistingOnly(questionIds) ==
    IF questionIds = NoList THEN 0
    ELSE Len(SelectSeq(questionIds, LAMBDA q : q \in DOMAIN Questions))

\* questionIds?.length || 0
TotalQuestions(questionIds) ==
    IF questionIds = NoList THEN 0 ELSE Len(questionIds)

\* The row that start inserts at the time startedAt.
NewSession(userId, type, questionIds, startedAt) ==
    [userId |-> userId,
     type |-> type,
     totalQuestions |-> TotalQuestions(questionIds),
     answeredQuestions |-> 0,
     status |-> "in_progress",
     overallScore |-> NoValue,
     technicalScore |-> NoValue,
     confidenceScore |-> NoValue,
     communicationScore |-> NoValue,
     duration |-> NoValue,
     startedAt |-> startedAt,
     completedAt |-> NoValue]

StartInterviewSession(userId, type, questionIds) ==
    /\ Len(sessions) < MaxSessions
    /\ IF userId = Anonymous
       THEN /\ result' = Reply("start", userId, 0, 401)
            /\ UNCHANGED sessions
       ELSE /\ sessions' = Append(sessions,
                                  NewSession(userId, type, questionIds, now))
            /\ result' = Reply("start", userId, Len(sessions) + 1, 201)
    /\ UNCHANGED <<responses, feedback, now, scorer, ties, calls, progress>>

(***************************************************************************)
(* submitAnswer                                                            *)
(***************************************************************************)
\* The status test dropped: every session counts as active.
NotActive_Never(session) == FALSE

\* A quota added to the status test: a session whose questions were all
\* answered counts as inactive.
NotActive_WhenAllAnswered(session) ==
    \/ session.status # "in_progress"
    \/ session.answeredQuestions >= session.totalQuestions

\* session[0].status !== 'in_progress'
NotActive(session) == session.status # "in_progress"

\* The counter update dropped.
Answered_Forgotten(session) == session

\* The sign of the counter update reversed.
Answered_CountsDown(session) == [session EXCEPT !.answeredQuestions = @ - 1]

\* set answeredQuestions = answeredQuestions + 1
Answered(session) == [session EXCEPT !.answeredQuestions = @ + 1]

SubmitAnswer(userId, sessionId, questionId, userAnswer) ==
    /\ Len(responses) < MaxResponses
    /\ IF userId = Anonymous
       THEN /\ result' = Reply("submitAnswer", userId, sessionId, 401)
            /\ UNCHANGED <<sessions, responses>>
       ELSE IF SessionOf(sessionId, userId) = {}
       THEN /\ result' = Reply("submitAnswer", userId, sessionId, 404)
            /\ UNCHANGED <<sessions, responses>>
       ELSE IF NotActive(sessions[sessionId])
       THEN /\ result' = Reply("submitAnswer", userId, sessionId, 400)
            /\ UNCHANGED <<sessions, responses>>
       ELSE IF questionId \notin DOMAIN Questions
       THEN /\ result' = Reply("submitAnswer", userId, sessionId, 404)
            /\ UNCHANGED <<sessions, responses>>
       ELSE LET graded == Graded[questionId][userAnswer]
            IN  /\ responses' = Append(responses,
                        [sessionId |-> sessionId,
                         questionId |-> questionId,
                         score |-> graded.score,
                         isCorrect |-> graded.isCorrect])
                /\ sessions' = [sessions EXCEPT ![sessionId] = Answered(@)]
                /\ result' = Reply("submitAnswer", userId, sessionId, 200)
    /\ UNCHANGED <<feedback, now, scorer, ties, calls, progress>>

(***************************************************************************)
(* completeInterviewSession and generateAIFeedback                         *)
(***************************************************************************)
StrongFeedback ==
    "Excellent performance! You demonstrated strong technical knowledge and clear communication."

EncouragingFeedback ==
    "Good effort! There are some areas for improvement, but you're on the right track."

ImprovementFeedback ==
    "Keep practicing! Focus on understanding core concepts and improving your problem-solving approach."

\* totalScore: the sum of parseFloat(r.score || '0') over the loaded responses.
TotalScore(rs) ==
    Sum([i \in 1..Len(rs) |-> IF rs[i].score = NoValue THEN 0 ELSE rs[i].score])

\* averageScore as the fraction <<numerator, denominator>> in hundredths:
\* totalScore / responses.length, and 0 when there are no responses.
AverageScore(rs) ==
    IF Len(rs) > 0 THEN <<TotalScore(rs), Len(rs)>> ELSE <<0, 1>>

\* Math.min(100, averageScore + bonus), as a fraction in hundredths.
CappedPlus_Uncapped(avg, bonus) == <<avg[1] + bonus * avg[2], avg[2]>>

CappedPlus(avg, bonus) ==
    <<Min(Hundred * avg[2], avg[1] + bonus * avg[2]), avg[2]>>

\* The ways the three numbers written at completion can fall at a tie:
\* averageScore, averageScore + 10 and averageScore + 5 are converted
\* separately (1 is kept where the number is no tie).
TieChoices(avg) ==
    LET ups(f) == IF IsTie(f[1], f[2]) THEN {0, 1} ELSE {1}
    IN  [overall : ups(avg),
         confidence : ups(CappedPlus(avg, 1000)),
         communication : ups(CappedPlus(avg, 500))]

\* The row is filed as the feedback on a question.
FeedbackType_Question == "question"

\* type: 'overall'
FeedbackType == "overall"

\* The bounds are exclusive: averageScore > 80, averageScore > 60.
FeedbackText_Exclusive(avg) ==
    IF avg[1] > 8000 * avg[2] THEN StrongFeedback
    ELSE IF avg[1] > 6000 * avg[2] THEN EncouragingFeedback
    ELSE ImprovementFeedback

\* feedbackText, by averageScore >= 80 and averageScore >= 60.  The
\* comparisons of this section are made on the exact mean; the scores of the
\* model whose mean equals 60, 70 or 80 are whole numbers, which floating
\* point adds and divides exactly.
FeedbackText(avg) ==
    IF avg[1] >= 8000 * avg[2] THEN StrongFeedback
    ELSE IF avg[1] >= 6000 * avg[2] THEN EncouragingFeedback
    ELSE ImprovementFeedback

StrongStrengths ==
    <<"Clear communication", "Good problem-solving approach",
      "Technical knowledge">>

BasicStrengths == <<"Willingness to learn", "Basic understanding">>

MinorWeaknesses == <<"Minor optimization opportunities">>

DeepWeaknesses ==
    <<"Technical depth", "Problem-solving speed", "Code optimization">>

\* The strengths change where the narrative does, at 60.
Strengths_AtSixty(avg) ==
    IF avg[1] >= 6000 * avg[2] THEN StrongStrengths ELSE BasicStrengths

\* strengths, by averageScore >= 70
Strengths(avg) ==
    IF avg[1] >= 7000 * avg[2] THEN StrongStrengths ELSE BasicStrengths

\* weaknesses, by averageScore < 70
Weaknesses(avg) ==
    IF avg[1] < 7000 * avg[2] THEN DeepWeaknesses ELSE MinorWeaknesses

\* The ai_feedback row written for an average score of avg.
generateAIFeedback(sessionId, avg, up) ==
    [sessionId |-> sessionId,
     type |-> FeedbackType,
     feedback |-> FeedbackText(avg),
     strengths |-> Strengths(avg),
     weaknesses |-> Weaknesses(avg),
     improvementTips |->
         <<"Practice more coding problems", "Review system design concepts",
           "Work on communication skills", "Study company-specific technologies">>,
     score |-> ToDecimal(avg[1], avg[2], up.overall)]

\* The status is left as it is: the scores are written to an open session.
CompletedStatus_KeepsStatus(session) == session.status

\* complete toggles the status: a completed session is opened again.
CompletedStatus_Toggles(session) ==
    IF session.status = "completed" THEN "in_progress" ELSE "completed"

\* A session with unanswered questions is marked abandoned, not completed.
CompletedStatus_AbandonsUnanswered(session) ==
    IF session.answeredQuestions < session.totalQuestions
    THEN "abandoned" ELSE "completed"

\* status: 'completed', whatever the row held.
CompletedStatus(session) == "completed"

\* Confidence and communication are copies of the overall score.
CompletedSession_NoBonus(session, avg, up) ==
    [session EXCEPT
        !.status = CompletedStatus(session),
        !.overallScore = ToDecimal(avg[1], avg[2], up.overall),
        !.technicalScore = ToDecimal(avg[1], avg[2], up.overall),
        !.confidenceScore = ToDecimal(avg[1], avg[2], up.overall),
        !.communicationScore = ToDecimal(avg[1], avg[2], up.overall),
        !.duration = now - session.startedAt,
        !.completedAt = now]

\* The session row after the completion update, for an average score of avg.
CompletedSession(session, avg, up) ==
    [session EXCEPT
        !.status = CompletedStatus(session),
        !.overallScore = ToDecimal(avg[1], avg[2], up.overall),
        !.technicalScore = ToDecimal(avg[1], avg[2], up.overall),
        !.confidenceScore =
            ToDecimal(CappedPlus(avg, 1000)[1], avg[2], up.confidence),
        !.communicationScore =
            ToDecimal(CappedPlus(avg, 500)[1], avg[2], up.communication),
        !.duration = now - session.startedAt,
        !.completedAt = now]

\* The row is written only for a positive score.
InsertFeedback_OnlyScored(table, row) ==
    IF row.score > 0 THEN Append(table, row) ELSE table

\* db.insert(aiFeedback).values(row)
InsertFeedback(table, row) == Append(table, row)

CompleteInterviewSession(userId, sessionId) ==
    /\ Len(feedback) < MaxFeedback
    /\ IF userId = Anonymous
       THEN /\ result' = Reply("complete", userId, sessionId, 401)
            /\ UNCHANGED <<sessions, feedback, ties>>
       ELSE IF SessionOf(sessionId, userId) = {}
       THEN /\ result' = Reply("complete", userId, sessionId, 404)
            /\ UNCHANGED <<sessions, feedback, ties>>
       ELSE LET rs == ResponsesOf(sessionId)
                scores == [i \in 1..Len(rs) |-> rs[i].score]
                averageScore == AverageScore(rs)
            IN  \E up \in (IF scores \in DOMAIN ties
                           THEN {ties[scores]}
                           ELSE TieChoices(averageScore)) :
                    /\ sessions' = [sessions EXCEPT
                            ![sessionId] = CompletedSession(@, averageScore, up)]
                    /\ feedback' = InsertFeedback(feedback,
                            generateAIFeedback(sessionId, averageScore, up))
                    /\ ties' = IF Cardinality(TieChoices(averageScore)) > 1
                               THEN (scores :> up) @@ ties
                               ELSE ties
                    /\ result' = Reply("complete", userId, sessionId, 200)
    /\ UNCHANGED <<responses, now, scorer, calls, progress>>

(***************************************************************************)
(* The clock (one unit is one minute).                                     *)
(***************************************************************************)
Tick ==
    /\ now < MaxTime
    /\ now' = now + 1
    /\ UNCHANGED <<sessions, responses, feedback, result, scorer, ties, calls,
                   progress>>

Start ==
    \E userId \in Callers, type \in Types, questionIds \in QuestionIdLists :
        StartInterviewSession(userId, type, questionIds)

Submit ==
    \E userId \in Callers, sessionId \in 1..(MaxSessions + 1),
       questionId \in QuestionIds, userAnswer \in UserAnswers :
        SubmitAnswer(userId, sessionId, questionId, userAnswer)

Complete ==
    \E userId \in Callers, sessionId \in 1..(MaxSessions + 1) :
        CompleteInterviewSession(userId, sessionId)

Next == Start \/ Submit \/ Complete

Spec == Init /\ [][Next]_vars

NextClock == Next \/ Tick

SpecClock == Init /\ [][NextClock]_vars

(***************************************************************************)
(* The handlers store call by store call.  A handler awaits each of its    *)
(* store calls, and other requests run in between: an invocation in flight *)
(* holds a slot of calls with its position (pc), its request and what it   *)
(* has read.  SpecSteps runs up to MaxCalls invocations of submitAnswer    *)
(* and complete at once; SpecFaults runs one at a time with store calls    *)
(* that can fail (the error handler then answers 500).                     *)
(***************************************************************************)
\* The requests of the step-wise specifications.
StepCallers == {Anonymous, 1}

StepQuestionIds == {1, MissingQuestion}

StepAnswers ==
    { JoinWords(<<Abc, abd, xyz>>), JoinWords(<<abc, abd, xyz, abe, xyw>>) }

\* The invocations of a handler that are in flight.
InFlight(op) == Cardinality({c \in Slots : calls[c].op = op})

\* The handler of slot c answers: res.json or the error handler.
Finish(c, code) ==
    /\ result' = Reply(calls[c].op, calls[c].userId, calls[c].sessionId, code)
    /\ calls' = [calls EXCEPT ![c] = IdleCall]

GoTo(c, pc) ==
    /\ calls' = [calls EXCEPT ![c].pc = pc]
    /\ UNCHANGED result

\* submitAnswer up to its first store call.
BeginSubmitAnswer(c, userId, sessionId, questionId, userAnswer, before) ==
    /\ calls[c].pc = "idle"
    /\ Len(responses) + InFlight("submitAnswer") < MaxResponses
    /\ IF userId = Anonymous
       THEN /\ result' = Reply("submitAnswer", userId, sessionId, 401)
            /\ UNCHANGED calls
       ELSE /\ calls' = [calls EXCEPT ![c] =
                    [IdleCall EXCEPT !.op = "submitAnswer", !.pc = "session",
                                     !.userId = userId, !.sessionId = sessionId,
                                     !.questionId = questionId,
                                     !.userAnswer = userAnswer,
                                     !.before = before]]
            /\ UNCHANGED result
    /\ UNCHANGED <<sessions, responses, feedback, now, scorer, ties, progress>>

\* The select of the session and the two tests on it.
SubmitFindSession(c) ==
    /\ calls[c].op = "submitAnswer"
    /\ calls[c].pc = "session"
    /\ IF SessionOf(calls[c].sessionId, calls[c].userId) = {}
       THEN Finish(c, 404)
       ELSE IF NotActive(sessions[calls[c].sessionId])
       THEN Finish(c, 400)
       ELSE GoTo(c, "question")
    /\ UNCHANGED <<sessions, responses, feedback, now, scorer, ties, progress>>

\* The select of the question; the scoring follows without a store call.
SubmitFindQuestion(c) ==
    /\ calls[c].op = "submitAnswer"
    /\ calls[c].pc = "question"
    /\ IF calls[c].questionId \notin DOMAIN Questions
       THEN Finish(c, 404)
       ELSE GoTo(c, "insert")
    /\ UNCHANGED <<sessions, responses, feedback, now, scorer, ties, progress>>

\* The insert of the response.
SubmitInsert(c) ==
    /\ calls[c].op = "submitAnswer"
    /\ calls[c].pc = "insert"
    /\ LET graded == Graded[calls[c].questionId][calls[c].userAnswer]
       IN  responses' = Append(responses,
                [sessionId |-> calls[c].sessionId,
                 questionId |-> calls[c].questionId,
                 score |-> graded.score,
                 isCorrect |-> graded.isCorrect])
    /\ GoTo(c, "count")
    /\ UNCHANGED <<sessions, feedback, now, scorer, ties, progress>>

\* The update of answeredQuestions (one SQL statement), then the answer.
SubmitCount(c) ==
    /\ calls[c].op = "submitAnswer"
    /\ calls[c].pc = "count"
    /\ sessions' = [sessions EXCEPT ![calls[c].sessionId] = Answered(@)]
    /\ Finish(c, 200)
    /\ UNCHANGED <<responses, feedback, now, scorer, ties, progress>>

\* completeInterviewSession up to its first store call.
BeginComplete(c, userId, sessionId, before) ==
    /\ calls[c].pc = "idle"
    /\ Len(feedback) + InFlight("complete") < MaxFeedback
    /\ IF userId = Anonymous
       THEN /\ result' = Reply("complete", userId, sessionId, 401)
            /\ UNCHANGED calls
       ELSE /\ calls' = [calls EXCEPT ![c] =
                    [IdleCall EXCEPT !.op = "complete", !.pc = "session",
                                     !.userId = userId, !.sessionId = sessionId,
                                     !.before = before]]
            /\ UNCHANGED result
    /\ UNCHANGED <<sessions, responses, feedback, now, scorer, ties, progress>>

\* The select of the session.
CompleteFindSession(c) ==
    /\ calls[c].op = "complete"
    /\ calls[c].pc = "session"
    /\ IF SessionOf(calls[c].sessionId, calls[c].userId) = {}
       THEN Finish(c, 404)
       ELSE GoTo(c, "responses")
    /\ UNCHANGED <<sessions, responses, feedback, now, scorer, ties, progress>>

\* The select of the session's responses.
CompleteLoadResponses(c) ==
    /\ calls[c].op = "complete"
    /\ calls[c].pc = "responses"
    /\ calls' = [calls EXCEPT ![c].pc = "update",
                              ![c].loaded = ResponsesOf(calls[c].sessionId)]
    /\ UNCHANGED <<sessions, responses, feedback, now, result, scorer, ties,
                   progress>>

\* The update of the session row, from the responses loaded before.
CompleteUpdate(c) ==
    /\ calls[c].op = "complete"
    /\ calls[c].pc = "update"
    /\ LET rs == calls[c].loaded
           scores == [i \in 1..Len(rs) |-> rs[i].score]
           averageScore == AverageScore(rs)
       IN  \E up \in (IF scores \in DOMAIN ties
                      THEN {ties[scores]}
                      ELSE TieChoices(averageScore)) :
               /\ sessions' = [sessions EXCEPT ![calls[c].sessionId] =
                                  CompletedSession(@, averageScore, up)]
               /\ ties' = IF Cardinality(TieChoices(averageScore)) > 1
                          THEN (scores :> up) @@ ties
                          ELSE ties
    /\ GoTo(c, "feedback")
    /\ UNCHANGED <<responses, feedback, now, scorer, progress>>

\* generateAIFeedback: the insert of the feedback row, then the answer.
CompleteFeedback(c) ==
    /\ calls[c].op = "complete"
    /\ calls[c].pc = "feedback"
    /\ LET rs == calls[c].loaded
           scores == [i \in 1..Len(rs) |-> rs[i].score]
           averageScore == AverageScore(rs)
           up == IF scores \in DOMAIN ties THEN ties[scores]
                 ELSE CHOOSE u \in TieChoices(averageScore) : TRUE
       IN  feedback' = InsertFeedback(feedback,
               generateAIFeedback(calls[c].sessionId, averageScore, up))
    /\ Finish(c, 200)
    /\ UNCHANGED <<sessions, responses, now, scorer, ties, progress>>

\* The store call that the invocation of slot c awaits is rejected: the
\* handler throws and the error handler answers 500.
Fail(c) ==
    /\ calls[c].op \in {"submitAnswer", "complete"}
    /\ Finish(c, 500)
    /\ UNCHANGED <<sessions, responses, feedback, now, scorer, ties, progress>>

\* A session is started (one store call: a start is one step).
StepStart ==
    \E userId \in StepCallers, type \in Types :
        StartInterviewSession(userId, type, <<1, MissingQuestion>>)

StepBegin(c, before) ==
    \/ \E userId \in StepCallers, sessionId \in 1..MaxSessions,
          questionId \in StepQuestionIds, userAnswer \in StepAnswers :
           BeginSubmitAnswer(c, userId, sessionId, questionId, userAnswer, before)
    \/ \E userId \in StepCallers, sessionId \in 1..MaxSessions :
           BeginComplete(c, userId, sessionId, before)

StepSubmit(c) ==
    \/ SubmitFindSession(c)
    \/ SubmitFindQuestion(c)
    \/ SubmitInsert(c)
    \/ SubmitCount(c)

StepComplete(c) ==
    \/ CompleteFindSession(c)
    \/ CompleteLoadResponses(c)
    \/ CompleteUpdate(c)
    \/ CompleteFeedback(c)

StepsNext ==
    \/ StepStart
    \/ \E c \in Slots : StepBegin(c, <<>>)
    \/ \E c \in Slots : StepSubmit(c)
    \/ \E c \in Slots : StepComplete(c)

SpecSteps == Init /\ [][StepsNext]_vars

\* One invocation at a time, in slot 1, which keeps the store as it was when
\* the invocation began.
\* A session is started between two invocations.
FaultsStart == calls[1].pc = "idle" /\ StepStart

FaultsNext ==
    \/ FaultsStart
    \/ StepBegin(1, store)
    \/ StepSubmit(1)
    \/ StepComplete(1)
    \/ Fail(1)

SpecFaults == Init /\ [][FaultsNext]_vars

(***************************************************************************)
(* getUserProgress and updateUserGoals (analyticsController.ts), store     *)
(* call by store call, over the user_progress table.  SpecProgress runs up *)
(* to MaxCalls invocations at once.                                        *)
(***************************************************************************)
\* The goals of an updateGoals request that passed updateGoalsSchema; NoValue
\* is a goal left out.
WeeklyGoals == {NoValue, 1, 50}

MonthlyGoals == {NoValue, 200}

\* A goal left out written as 0 instead of the fallback.
GoalOr_Zero(goal, fallback) == IF goal = NoValue THEN 0 ELSE goal

\* goal || fallback
GoalOr(goal, fallback) == IF goal = NoValue \/ goal = 0 THEN fallback ELSE goal

\* The user_progress row that both handlers insert for a user without one.
NewProgress(userId, weeklyGoal, monthlyGoal) ==
    [userId |-> userId,
     totalInterviews |-> 0,
     averageScore |-> 0,
     bestScore |-> 0,
     improvementRate |-> 0,
     weeklyGoal |-> GoalOr(weeklyGoal, 3),
     monthlyGoal |-> GoalOr(monthlyGoal, 12),
     streak |-> 0]

\* The select finds no row, whatever the table holds.
ProgressOf_Never(userId) == {}

\* db.select().from(userProgress).where(userId = userId)
ProgressOf(userId) == {k \in 1..Len(progress) : progress[k].userId = userId}

\* The invocations that may still insert a user_progress row.
ProgressInFlight == InFlight("getProgress") + InFlight("updateGoals")

\* getUserProgress up to its first store call.
BeginGetProgress(c, userId) ==
    /\ calls[c].pc = "idle"
    /\ Len(progress) + ProgressInFlight < MaxProgress
    /\ IF userId = Anonymous
       THEN /\ result' = Reply("getProgress", userId, 0, 401)
            /\ UNCHANGED calls
       ELSE /\ calls' = [calls EXCEPT ![c] =
                    [IdleCall EXCEPT !.op = "getProgress", !.pc = "select",
                                     !.userId = userId]]
            /\ UNCHANGED result
    /\ UNCHANGED <<sessions, responses, feedback, now, scorer, ties, progress>>

\* The select of the caller's progress row.
ProgressSelect(c) ==
    /\ calls[c].op = "getProgress"
    /\ calls[c].pc = "select"
    /\ IF ProgressOf(calls[c].userId) = {}
       THEN GoTo(c, "insert")
       ELSE GoTo(c, "report")
    /\ UNCHANGED <<sessions, responses, feedback, now, scorer, ties, progress>>

\* The insert of the initial progress row.
ProgressInsert(c) ==
    /\ calls[c].op = "getProgress"
    /\ calls[c].pc = "insert"
    /\ progress' = Append(progress, NewProgress(calls[c].userId, NoValue, NoValue))
    /\ GoTo(c, "report")
    /\ UNCHANGED <<sessions, responses, feedback, now, scorer, ties>>

\* The three selects over interview_sessions and the answer.
ProgressReport(c) ==
    /\ calls[c].op = "getProgress"
    /\ calls[c].pc = "report"
    /\ Finish(c, 200)
    /\ UNCHANGED <<sessions, responses, feedback, now, scorer, ties, progress>>

\* updateUserGoals up to its first store call.
BeginUpdateGoals(c, userId, weeklyGoal, monthlyGoal) ==
    /\ calls[c].pc = "idle"
    /\ Len(progress) + ProgressInFlight < MaxProgress
    /\ IF userId = Anonymous
       THEN /\ result' = Reply("updateGoals", userId, 0, 401)
            /\ UNCHANGED calls
       ELSE /\ calls' = [calls EXCEPT ![c] =
                    [IdleCall EXCEPT !.op = "updateGoals", !.pc = "update",
                                     !.userId = userId,
                                     !.weeklyGoal = weeklyGoal,
                                     !.monthlyGoal = monthlyGoal]]
            /\ UNCHANGED result
    /\ UNCHANGED <<sessions, responses, feedback, now, scorer, ties, progress>>

\* The update of every progress row of the caller (a goal left out keeps the
\* column); the answer when a row was updated.
GoalsUpdate(c) ==
    /\ calls[c].op = "updateGoals"
    /\ calls[c].pc = "update"
    /\ progress' =
         [k \in 1..Len(progress) |->
            IF progress[k].userId = calls[c].userId
            THEN [progress[k] EXCEPT
                    !.weeklyGoal = GoalOr(calls[c].weeklyGoal, @),
                    !.monthlyGoal = GoalOr(calls[c].monthlyGoal, @)]
            ELSE progress[k]]
    /\ IF ProgressOf(calls[c].userId) = {}
       THEN GoTo(c, "insert")
       ELSE Finish(c, 200)
    /\ UNCHANGED <<sessions, responses, feedback, now, scorer, ties>>

\* The insert of a progress row with the goals of the request, and the answer.
GoalsInsert(c) ==
    /\ calls[c].op = "updateGoals"
    /\ calls[c].pc = "insert"
    /\ progress' = Append(progress,
            NewProgress(calls[c].userId, calls[c].weeklyGoal,
                        calls[c].monthlyGoal))
    /\ Finish(c, 200)
    /\ UNCHANGED <<sessions, responses, feedback, now, scorer, ties>>

GetProgress(c) ==
    \/ \E userId \in Callers : BeginGetProgress(c, userId)
    \/ ProgressSelect(c)
    \/ ProgressInsert(c)
    \/ ProgressReport(c)

UpdateGoals(c) ==
    \/ \E userId \in Callers, weeklyGoal \in WeeklyGoals,
          monthlyGoal \in MonthlyGoals :
           BeginUpdateGoals(c, userId, weeklyGoal, monthlyGoal)
    \/ GoalsUpdate(c)
    \/ GoalsInsert(c)

ProgressNext ==
    \/ \E c \in Slots : GetProgress(c)
    \/ \E c \in Slots : UpdateGoals(c)

SpecProgress == Init /\ [][ProgressNext]_vars

(***************************************************************************)
(* The analytics handlers, each run as a whole over a store that the       *)
(* interview handlers left behind.  The handlers read the sessions, the    *)
(* responses and the feedback and write user_progress only, so the store   *)
(* is drawn when SpecAnalytics begins: every session was started at time   *)
(* 0, took its answers to question 1 and was or was not completed at one   *)
(* of a few instants, and its rows are the ones start, submitAnswer and    *)
(* complete write.                                                         *)
(***************************************************************************)
MaxAnswers == 5

\* 24 * 60 minutes, and the windows of 7 and 30 days.
DayMinutes == 24 * 60

Week == 7 * DayMinutes

Month == 30 * DayMinutes

\* The time of the requests: the first instants of the store lie 30 days back.
AnalyticsNow == Month + MaxTime

\* The instants of the completions: just before and exactly at the start of
\* the 30-day window, just before and exactly at the start of the 7-day
\* window, and now.
CompletionTimes ==
    {0, AnalyticsNow - Month, Month - Week, AnalyticsNow - Week, AnalyticsNow}

\* n answers to question 1, the first k of them right (score 100) and the
\* others empty (score 0).
KOfN(k, n) ==
    [i \in 1..n |-> IF i <= k THEN JoinWords(<<Abc, abd, xyz>>) ELSE NoText]

\* What happened to one session: whose it is, the answers it took, and when
\* it was completed (NoValue: it was not).
TimedHistories ==
    [userId : Users,
     answers : {KOfN(0, 0), KOfN(1, 1), KOfN(1, 2)},
     completedAt : {NoValue} \cup CompletionTimes]

SkillHistories ==
    [userId : {1},
     answers : UNION {{KOfN(k, n) : k \in 0..n} : n \in 1..MaxAnswers},
     completedAt : {AnalyticsNow}]

\* The stores: no session, one session, or two sessions of which the first
\* is user 1's.
Histories ==
    {<<>>} \cup {<<h>> : h \in TimedHistories \cup SkillHistories}
           \cup ({h \in TimedHistories : h.userId = 1} \X TimedHistories)

\* No number of the histories' means falls at a tie.
RoundUp == [overall |-> 1, confidence |-> 1, communication |-> 1]

\* The interview_responses rows of the session's answers.
ResponsesIn(sessionId, h) ==
    [k \in 1..Len(h.answers) |->
        [sessionId |-> sessionId,
         questionId |-> 1,
         score |-> Graded[1][h.answers[k]].score,
         isCorrect |-> Graded[1][h.answers[k]].isCorrect]]

RECURSIVE AnsweredTimes(_, _)
AnsweredTimes(session, n) ==
    IF n = 0 THEN session ELSE AnsweredTimes(Answered(session), n - 1)

\* The interview_sessions row of the history: the update of complete was
\* made at h.completedAt.
SessionIn(sessionId, h) ==
    LET open == AnsweredTimes(
                    NewSession(h.userId, "technical", <<1, MissingQuestion>>, 0),
                    Len(h.answers))
    IN  IF h.completedAt = NoValue THEN open
        ELSE [CompletedSession(open, AverageScore(ResponsesIn(sessionId, h)),
                               RoundUp)
                EXCEPT !.duration = h.completedAt - open.startedAt,
                       !.completedAt = h.completedAt]

RECURSIVE Flatten(_)
Flatten(tables) ==
    IF tables = <<>> THEN <<>> ELSE Head(tables) \o Flatten(Tail(tables))

\* The three tables after the histories hs.
SessionsIn(hs) == [i \in 1..Len(hs) |-> SessionIn(i, hs[i])]

ResponsesAfter(hs) == Flatten([i \in 1..Len(hs) |-> ResponsesIn(i, hs[i])])

FeedbackAfter(hs) ==
    Flatten([i \in 1..Len(hs) |->
        IF hs[i].completedAt = NoValue THEN <<>>
        ELSE <<generateAIFeedback(i, AverageScore(ResponsesIn(i, hs[i])),
                                  RoundUp)>>])

AnalyticsInit ==
    /\ now = AnalyticsNow
    /\ \E hs \in Histories :
        /\ sessions = SessionsIn(hs)
        /\ responses = ResponsesAfter(hs)
        /\ feedback = FeedbackAfter(hs)
    /\ result = NoResult
    /\ scorer = IdleScorer
    /\ ties = NoTies
    /\ calls = NoCalls
    /\ progress = <<>>

\* res.json({ success: true, data }) of an analytics handler.
Answer(op, userId, data) ==
    [op |-> op, userId |-> userId, sessionId |-> 0, code |-> 200, data |-> data]

\* Math.round(num / den) for den > 0: the nearest integer, a half going up.
RoundDiv(num, den) == (2 * num + den) \div (2 * den)

\* The window is open at its start: a session completed exactly at since is
\* left out.
CompletedSince_After(userId, since) ==
    SelectSeq(sessions, LAMBDA s : /\ s.userId = userId
                                   /\ s.status = "completed"
                                   /\ s.completedAt > since)

\* where userId = userId and status = 'completed' and completedAt >= since
CompletedSince(userId, since) ==
    SelectSeq(sessions, LAMBDA s : /\ s.userId = userId
                                   /\ s.status = "completed"
                                   /\ s.completedAt >= since)

\* { completed, goal, percentage } of one window.
WindowProgress(userId, since, goal) ==
    LET completed == Len(CompletedSince(userId, since))
    IN  [completed |-> completed,
         goal |-> goal,
         percentage |-> RoundDiv(100 * completed, goal)]

\* getUserProgress: the caller's row is read, or inserted when there is none
\* (limit(1) returns one of the caller's rows), and the two windows are
\* counted; recentSessions is the number of sessions listed.
GetUserProgress(userId) ==
    /\ Len(progress) < MaxProgress
    /\ IF userId = Anonymous
       THEN /\ result' = Reply("getProgress", userId, 0, 401)
            /\ UNCHANGED progress
       ELSE \E row \in (IF ProgressOf(userId) = {}
                        THEN {NewProgress(userId, NoValue, NoValue)}
                        ELSE {progress[k] : k \in ProgressOf(userId)}) :
              /\ progress' = IF ProgressOf(userId) = {}
                             THEN Append(progress, row) ELSE progress
              /\ result' = Answer("getProgress", userId,
                    [progress |-> row,
                     recentSessions |->
                         Min(10, Len(CompletedSince(userId, NoValue))),
                     weeklyProgress |->
                         WindowProgress(userId, now - Week, row.weeklyGoal),
                     monthlyProgress |->
                         WindowProgress(userId, now - Month, row.monthlyGoal)])
    /\ UNCHANGED <<sessions, responses, feedback, now, scorer, ties, calls>>

\* updateUserGoals: the goals given are written to the caller's rows, or a
\* row with them is inserted when there is none.
UpdateUserGoals(userId, weeklyGoal, monthlyGoal) ==
    /\ Len(progress) < MaxProgress
    /\ IF userId = Anonymous
       THEN /\ result' = Reply("updateGoals", userId, 0, 401)
            /\ UNCHANGED progress
       ELSE /\ progress' =
                 IF ProgressOf(userId) = {}
                 THEN Append(progress,
                             NewProgress(userId, weeklyGoal, monthlyGoal))
                 ELSE [k \in 1..Len(progress) |->
                         IF progress[k].userId = userId
                         THEN [progress[k] EXCEPT
                                 !.weeklyGoal = GoalOr(weeklyGoal, @),
                                 !.monthlyGoal = GoalOr(monthlyGoal, @)]
                         ELSE progress[k]]
            /\ result' = Reply("updateGoals", userId, 0, 200)
    /\ UNCHANGED <<sessions, responses, feedback, now, scorer, ties, calls>>

\* The values of the query parameter period, in days ('30' when left out).
Periods == {7, 30}

\* completedAt.toISOString().split('T')[0]: the days since time 0, a midnight.
DateOf(time) == time \div DayMinutes

\* The mean of the overall scores of the rows completed on the date, as the
\* fraction <<sum, count>> in hundredths.
MeanOn(rows, date) ==
    LET onDate == SelectSeq(rows, LAMBDA s : DateOf(s.completedAt) = date)
    IN  <<Sum([i \in 1..Len(onDate) |-> onDate[i].overallScore]), Len(onDate)>>

Least(S) == CHOOSE x \in S : \A y \in S : x <= y

Greatest(S) == CHOOSE x \in S : \A y \in S : x >= y

\* Math.round(((last - first) / first * 100) * 100) / 100 in hundredths of a
\* percent. A first mean of 0 is divided by as it is: the quotient is
\* Infinity, or NaN when the last mean is 0 too, and Math.round keeps it.
ImprovementRate(first, last) ==
    IF first[1] = 0
    THEN [kind |-> IF last[1] = 0 THEN "NaN" ELSE "Infinity", hundredths |-> 0]
    ELSE [kind |-> "number",
          hundredths |->
              RoundDiv(10000 * (last[1] * first[2] - first[1] * last[2]),
                       first[1] * last[2])]

NoImprovement == [kind |-> "number", hundredths |-> 0]

\* getPerformanceAnalytics: the caller's sessions completed in the period,
\* their mean per date, and the change from the first date to the last.
GetPerformanceAnalytics(userId, period) ==
    /\ IF userId = Anonymous
       THEN result' = Reply("getPerformanceAnalytics", userId, 0, 401)
       ELSE LET rows == CompletedSince(userId, now - period * DayMinutes)
                dates == {DateOf(rows[i].completedAt) : i \in 1..Len(rows)}
            IN  result' = Answer("getPerformanceAnalytics", userId,
                    [performanceData |-> [d \in dates |-> MeanOn(rows, d)],
                     improvementRate |->
                         IF Cardinality(dates) >= 2
                         THEN ImprovementRate(MeanOn(rows, Least(dates)),
                                              MeanOn(rows, Greatest(dates)))
                         ELSE NoImprovement,
                     totalSessions |-> Len(rows)])
    /\ UNCHANGED <<sessions, responses, feedback, now, scorer, ties, calls,
                   progress>>

\* The lower bounds taken as exclusive.
getStrengthLevel_Exclusive(accuracy) ==
    IF 5 * accuracy[1] > 4 * accuracy[2] THEN "Strong"
    ELSE IF 5 * accuracy[1] > 3 * accuracy[2] THEN "Good"
    ELSE IF 5 * accuracy[1] > 2 * accuracy[2] THEN "Fair"
    ELSE "Needs Improvement"

\* getStrengthLevel of the accuracy <<correctAnswers, totalQuestions>>:
\* >= 0.8, >= 0.6, >= 0.4.
getStrengthLevel(accuracy) ==
    IF 5 * accuracy[1] >= 4 * accuracy[2] THEN "Strong"
    ELSE IF 5 * accuracy[1] >= 3 * accuracy[2] THEN "Good"
    ELSE IF 5 * accuracy[1] >= 2 * accuracy[2] THEN "Fair"
    ELSE "Needs Improvement"

\* The responses joined to their sessions, for the caller's completed sessions.
ResponsesOfCompleted(userId) ==
    SelectSeq(responses, LAMBDA r : /\ sessions[r.sessionId].userId = userId
                                    /\ sessions[r.sessionId].status = "completed")

\* The metrics of one skill: the responses of the sessions of that type.
SkillMetrics(rows, type) ==
    LET ofType == SelectSeq(rows, LAMBDA r : sessions[r.sessionId].type = type)
        totalQuestions == Len(ofType)
        correctAnswers == Len(SelectSeq(ofType, LAMBDA r : r.isCorrect))
        totalScore == Sum([i \in 1..Len(ofType) |-> ofType[i].score])
    IN  [accuracy |-> RoundDiv(100 * correctAnswers, totalQuestions),
         averageScore |-> RoundDiv(totalScore, 100 * totalQuestions),
         totalQuestions |-> totalQuestions,
         strengthLevel |-> getStrengthLevel(<<correctAnswers, totalQuestions>>)]

\* getSkillAnalysis: the metrics of every session type that has responses,
\* and the number of overall feedback rows listed (at most 5).
GetSkillAnalysis(userId) ==
    /\ IF userId = Anonymous
       THEN result' = Reply("getSkillAnalysis", userId, 0, 401)
       ELSE LET rows == ResponsesOfCompleted(userId)
                skills == {sessions[rows[i].sessionId].type : i \in 1..Len(rows)}
                listed == SelectSeq(feedback, LAMBDA f :
                              /\ sessions[f.sessionId].userId = userId
                              /\ f.type = "overall")
            IN  result' = Answer("getSkillAnalysis", userId,
                    [skillAnalysis |-> [t \in skills |-> SkillMetrics(rows, t)],
                     recentFeedback |-> Min(5, Len(listed))])
    /\ UNCHANGED <<sessions, responses, feedback, now, scorer, ties, calls,
                   progress>>

UserProgress == \E userId \in Callers : GetUserProgress(userId)

\* Of the goals that pass updateGoalsSchema, the smallest weekly one; the
\* monthly goal is left out.
UserGoals ==
    \E userId \in Callers, weeklyGoal \in {NoValue, 1} :
        UpdateUserGoals(userId, weeklyGoal, NoValue)

Performance ==
    \E userId \in Callers, period \in Periods :
        GetPerformanceAnalytics(userId, period)

Skills == \E userId \in Callers : GetSkillAnalysis(userId)

AnalyticsNext == UserProgress \/ UserGoals \/ Performance \/ Skills

SpecAnalytics == AnalyticsInit /\ [][AnalyticsNext]_vars

(***************************************************************************)
(* The scorer alone: every pair of texts of a bounded set is graded once.  *)
(***************************************************************************)
\* Words of the texts graded: three long words, a capitalised one, a short one.
ScorerWords == {abc, abd, xyz, Abc, ab}

WordSeqs == UNION {[1..k -> ScorerWords] : k \in 0..MaxWords}

\* Texts around the 0.6 threshold: an expected answer of three words, and
\* answers that add one word (similarity 3/4) and two words (3/5) to it.
ThresholdTexts ==
    { JoinWords(<<abc, abd, xyz>>),
      JoinWords(<<abc, abd, xyz, abe>>),
      JoinWords(<<abc, abd, xyz, abe, xyw>>) }

ScorerTexts == {NoText} \cup {JoinWords(ws) : ws \in WordSeqs} \cup ThresholdTexts

ScorerInit ==
    /\ sessions = <<>>
    /\ responses = <<>>
    /\ feedback = <<>>
    /\ now = 0
    /\ result = NoResult
    /\ ties = NoTies
    /\ calls = NoCalls
    /\ progress = <<>>
    /\ scorer \in
        {[userAnswer |-> u, expectedAnswer |-> e, scored |-> FALSE,
          score |-> 0, isCorrect |-> FALSE] : u \in ScorerTexts, e \in ScorerTexts}

Grade ==
    /\ ~scorer.scored
    /\ LET graded == ScoreAnswer(scorer.userAnswer, scorer.expectedAnswer)
       IN  scorer' = [scorer EXCEPT !.scored = TRUE,
                                    !.score = graded.score,
                                    !.isCorrect = graded.isCorrect]
    /\ UNCHANGED <<sessions, responses, feedback, now, result, ties, calls,
                   progress>>

ScorerNext == Grade

SpecScorer == ScorerInit /\ [][ScorerNext]_vars

(***************************************************************************)
(* Properties.                                                             *)
(***************************************************************************)
\* The session a request names, when it exists and the caller owns it.
OwnedBy(sessionId, userId) ==
    /\ sessionId \in 1..Len(sessions)
    /\ sessions[sessionId].userId = userId

\* The number of stored responses of a session, in a given responses table.
CountResponses(table, sessionId) ==
    Cardinality({i \in 1..Len(table) : table[i].sessionId = sessionId})

\* The number of stored feedback rows of a session.
CountFeedback(sessionId) ==
    Cardinality({i \in 1..Len(feedback) : feedback[i].sessionId = sessionId})

\* C1: completed is terminal.  In every step, a session whose status is
\* completed still exists afterwards and its status is still completed,
\* whichever of start, submitAnswer and complete the step is and whoever calls.
C1_CompletedIsTerminal ==
    [][\A i \in 1..Len(sessions) :
          sessions[i].status = "completed"
              => /\ i \in 1..Len(sessions')
                 /\ sessions'[i].status = "completed"]_vars

\* A completed session on which its owner has since called submitAnswer (which
\* was refused) after complete had already run twice on it.
C1_Witness ==
    \E i \in 1..Len(sessions) :
        /\ sessions[i].status = "completed"
        /\ CountFeedback(i) >= 2
        /\ result = Reply("submitAnswer", sessions[i].userId, i, 400)

\* C2: submitAnswer by the owner of a session whose status is not in_progress
\* is answered 400 (InvalidState), and that step creates no Response and leaves
\* every session row (answeredQuestions included) as it was.
C2_SubmitOnInactiveRejected ==
    [][(/\ result'.op = "submitAnswer"
        /\ result'.userId \in Users
        /\ OwnedBy(result'.sessionId, result'.userId)
        /\ sessions[result'.sessionId].status # "in_progress")
          => /\ result'.code = 400
             /\ responses' = responses
             /\ sessions' = sessions]_vars

\* The owner's submitAnswer on a completed session that already holds a
\* response has just been refused.
C2_Witness ==
    \E i \in 1..Len(sessions) :
        /\ sessions[i].status = "completed"
        /\ sessions[i].answeredQuestions = 1
        /\ CountResponses(responses, i) = 1
        /\ result = Reply("submitAnswer", sessions[i].userId, i, 400)

\* C3: submitAnswer and complete by a user on a session id that does not
\* exist, or that belongs to another user, are answered 404 (NotFound) and the
\* step changes no Session, Response or Feedback row.
C3_ForeignSessionNotFound ==
    [][(/\ result'.op \in {"submitAnswer", "complete"}
        /\ result'.userId \in Users
        /\ ~OwnedBy(result'.sessionId, result'.userId))
          => /\ result'.code = 404
             /\ UNCHANGED store]_vars

\* A user's complete on an in_progress session of the other user has just been
\* answered 404, and the session is still in_progress with null scores.
C3_Witness ==
    \E i \in 1..Len(sessions) :
        /\ result.userId \in Users
        /\ sessions[i].userId # result.userId
        /\ sessions[i].status = "in_progress"
        /\ sessions[i].overallScore = NoValue
        /\ result = Reply("complete", result.userId, i, 404)

C5_AnsweredCountsResponses ==
    [][/\ (result'.op = "submitAnswer" /\ result'.code = 200)
            => /\ Len(responses') = Len(responses) + 1
               /\ SubSeq(responses', 1, Len(responses)) = responses
               /\ responses'[Len(responses')].sessionId = result'.sessionId
               /\ sessions' =
                    [sessions EXCEPT ![result'.sessionId].answeredQuestions =
                        sessions[result'.sessionId].answeredQuestions + 1]
       /\ \A i \in 1..Len(sessions') :
            sessions'[i].answeredQuestions = CountResponses(responses', i)]_vars

\* A second answer to a session has just been accepted while the other session
\* holds none.
C5_Witness ==
    \E i, j \in 1..Len(sessions) :
        /\ i # j
        /\ result = Reply("submitAnswer", sessions[i].userId, i, 200)
        /\ sessions[i].answeredQuestions = 2
        /\ CountResponses(responses, i) = 2
        /\ sessions[j].answeredQuestions = 0

\* C6: complete by the owner of an existing session is answered 200 and leaves
\* the session completed, whatever its status, answeredQuestions and
\* totalQuestions were.
C6_CompleteAlwaysAccepted ==
    [][(/\ result'.op = "complete"
        /\ result'.userId \in Users
        /\ OwnedBy(result'.sessionId, result'.userId))
          => /\ result'.code = 200
             /\ sessions'[result'.sessionId].status = "completed"]_vars

\* A session with two questions and no answer has been completed, and then
\* completed again while already completed.
C6_Witness ==
    \E i \in 1..Len(sessions) :
        /\ result = Reply("complete", sessions[i].userId, i, 200)
        /\ sessions[i].status = "completed"
        /\ sessions[i].answeredQuestions = 0
        /\ sessions[i].totalQuestions = 2
        /\ CountFeedback(i) = 2

\* The sum of the stored scores of a session's responses, in hundredths.
RECURSIVE ScoreSum(_, _)
ScoreSum(table, sessionId) ==
    IF table = <<>> THEN 0
    ELSE (IF Head(table).sessionId = sessionId THEN Head(table).score ELSE 0)
         + ScoreSum(Tail(table), sessionId)

\* The last request was a complete that was answered 200.
JustCompleted == result.op = "complete" /\ result.code = 200

\* C7 as claimed: right after a successful complete the session's overallScore
\* is exactly the arithmetic mean of the scores of its Responses (0 when it
\* has none), technicalScore equals overallScore, confidenceScore is
\* min(100, overallScore + 10) and communicationScore min(100, overallScore + 5).
C7_ScoresAreExactMean ==
    JustCompleted =>
        LET s == sessions[result.sessionId]
            n == CountResponses(responses, result.sessionId)
            sum == ScoreSum(responses, result.sessionId)
        IN  /\ s.overallScore * n = sum
            /\ (n = 0 => s.overallScore = 0)
            /\ s.technicalScore = s.overallScore
            /\ s.confidenceScore = Min(10000, s.overallScore + 1000)
            /\ s.communicationScore = Min(10000, s.overallScore + 500)

\* C7 as amended: right after a successful complete the session's overallScore
\* is the arithmetic mean of the scores of its Responses rounded to two
\* decimals (0 when it has none), technicalScore equals overallScore, and
\* confidenceScore and communicationScore are min(100, mean + 10) and
\* min(100, mean + 5) rounded to two decimals: each stored value is within
\* 0.005 of the exact one.
C7_ScoresAreRoundedMean ==
    JustCompleted =>
        LET s == sessions[result.sessionId]
            n == CountResponses(responses, result.sessionId)
            d == IF n = 0 THEN 1 ELSE n
            sum == ScoreSum(responses, result.sessionId)
            Near(stored, num) ==
                /\ 2 * d * stored - d <= 2 * num
                /\ 2 * num <= 2 * d * stored + d
        IN  /\ Near(s.overallScore, sum)
            /\ (n = 0 => s.overallScore = 0)
            /\ s.technicalScore = s.overallScore
            /\ Near(s.confidenceScore, Min(10000 * d, sum + 1000 * d))
            /\ Near(s.communicationScore, Min(10000 * d, sum + 500 * d))

\* A session with two responses whose mean has a third decimal (66.67 and
\* 100 give 83.335) has just been completed: overallScore is 83.34,
\* confidenceScore 93.34 and communicationScore 88.34.
C7_Witness ==
    /\ JustCompleted
    /\ CountResponses(responses, result.sessionId) = 2
    /\ ScoreSum(responses, result.sessionId) = 16667
    /\ sessions[result.sessionId].overallScore = 8334
    /\ sessions[result.sessionId].technicalScore = 8334
    /\ sessions[result.sessionId].confidenceScore = 9334
    /\ sessions[result.sessionId].communicationScore = 8834

\* C8 as claimed: right after a successful complete of a session that has no
\* Responses, all four session scores are 0.
C8_EmptySessionAllZero ==
    (JustCompleted /\ CountResponses(responses, result.sessionId) = 0) =>
        LET s == sessions[result.sessionId]
        IN  /\ s.overallScore = 0
            /\ s.technicalScore = 0
            /\ s.confidenceScore = 0
            /\ s.communicationScore = 0

\* C8 as amended: complete by the owner of a session that has no Responses is
\* answered 200 (no error), and leaves overallScore = 0, technicalScore = 0,
\* confidenceScore = 10 and communicationScore = 5.
C8_EmptySessionScores ==
    [][(/\ result'.op = "complete"
        /\ result'.userId \in Users
        /\ OwnedBy(result'.sessionId, result'.userId)
        /\ CountResponses(responses, result'.sessionId) = 0)
          => /\ result'.code = 200
             /\ sessions'[result'.sessionId].overallScore = 0
             /\ sessions'[result'.sessionId].technicalScore = 0
             /\ sessions'[result'.sessionId].confidenceScore = 1000
             /\ sessions'[result'.sessionId].communicationScore = 500]_vars

\* A session without responses has just been completed while the other
\* session holds a response with a positive score.
C8_Witness ==
    /\ JustCompleted
    /\ CountResponses(responses, result.sessionId) = 0
    /\ sessions[result.sessionId].status = "completed"
    /\ sessions[result.sessionId].confidenceScore = 1000
    /\ \E k \in 1..Len(responses) : responses[k].score > 0

\* A value of a score column is null or lies in [0, 100].
InRange(score) == score = NoValue \/ (0 <= score /\ score <= 10000)

\* C9 as claimed: every stored score lies in [0, 100]: the score of every
\* Response, the four scores of every Session and the score of every Feedback.
C9_ScoresInRange ==
    /\ \A k \in 1..Len(responses) :
          0 <= responses[k].score /\ responses[k].score <= 10000
    /\ \A i \in 1..Len(sessions) :
          /\ InRange(sessions[i].overallScore)
          /\ InRange(sessions[i].technicalScore)
          /\ InRange(sessions[i].confidenceScore)
          /\ InRange(sessions[i].communicationScore)
    /\ \A k \in 1..Len(feedback) : InRange(feedback[k].score)

(***************************************************************************)
(* The reference scorer of the specification: token sets.                  *)
(***************************************************************************)
Whitespace == {" ", "\t"}

RECURSIVE RefSplitRec(_, _)
RefSplitRec(text, cur) ==
    IF text = <<>> THEN {cur}
    ELSE IF Head(text) \in Whitespace
         THEN {cur} \cup RefSplitRec(Tail(text), <<>>)
         ELSE RefSplitRec(Tail(text), Append(cur, Head(text)))

\* The set of lower-cased tokens of a text that are longer than 2 characters.
RefTokens(text) ==
    {w \in RefSplitRec(toLowerCase(text), <<>>) : Len(w) > 2}

\* 100 * |A \cap B| / |A \cup B| to two decimals, 0 when the union is empty.
RefScore(userAnswer, expectedAnswer) ==
    LET A == RefTokens(userAnswer)
        B == RefTokens(expectedAnswer)
    IN  IF A \cup B = {} THEN 0
        ELSE (2 * 10000 * Cardinality(A \cap B) + Cardinality(A \cup B))
                 \div (2 * Cardinality(A \cup B))

\* C10 as claimed: the score assigned equals the reference scorer for every
\* pair of inputs: 0 with isCorrect false when either text is absent, and
\* otherwise 100 * |A \cap B| / |A \cup B| over the token sets.
C10_ScoreEqualsReference ==
    scorer.scored =>
        IF scorer.userAnswer = NoText \/ scorer.expectedAnswer = NoText
        THEN scorer.score = 0 /\ ~scorer.isCorrect
        ELSE scorer.score = RefScore(scorer.userAnswer, scorer.expectedAnswer)

\* The texts made of the same words: one is the other with its words
\* reordered and repeated.
SameWords(text1, text2) ==
    IF text1 = NoText \/ text2 = NoText THEN text1 = text2
    ELSE Range(split(text1)) = Range(split(text2))

\* C11 as claimed: the score and isCorrect given to a pair of texts are also
\* given to every pair obtained by reordering and repeating the words of the
\* user answer and of the expected answer.
C11_ScorerIgnoresOrderAndRepetition ==
    scorer.scored =>
        \A u \in {t \in ScorerTexts : SameWords(t, scorer.userAnswer)} :
            \A e \in {t \in ScorerTexts : SameWords(t, scorer.expectedAnswer)} :
                /\ ScoreAnswer(u, e).score = scorer.score
                /\ ScoreAnswer(u, e).isCorrect = scorer.isCorrect

\* C12: isCorrect is true exactly when the similarity computed for the pair
\* of texts is strictly greater than 0.6 (and it is false when a text is
\* absent and nothing is computed): a stored score above 60 comes with
\* isCorrect true, one below 60 with isCorrect false, and a similarity of
\* exactly 0.6 is stored as score 60 with isCorrect false.
C12_CorrectAboveThreshold ==
    scorer.scored =>
        LET similarity ==
                IF Truthy(scorer.userAnswer) /\ Truthy(scorer.expectedAnswer)
                THEN calculateTextSimilarity(toLowerCase(scorer.userAnswer),
                                             toLowerCase(scorer.expectedAnswer))
                ELSE <<0, 1>>
        IN  /\ scorer.isCorrect <=> 5 * similarity[1] > 3 * similarity[2]
            /\ scorer.score > 6000 => scorer.isCorrect
            /\ scorer.score < 6000 => ~scorer.isCorrect
            /\ 5 * similarity[1] = 3 * similarity[2]
                  => scorer.score = 6000 /\ ~scorer.isCorrect

\* An answer of five words, three of them the three words of the expected
\* answer, has been graded: score 60, not correct.
C12_Witness ==
    /\ scorer.scored
    /\ scorer.expectedAnswer = JoinWords(<<abc, abd, xyz>>)
    /\ scorer.userAnswer = JoinWords(<<abc, abd, xyz, abe, xyw>>)
    /\ scorer.score = 6000
    /\ ~scorer.isCorrect

\* The six columns that complete fills.
Unset(session) ==
    /\ session.overallScore = NoValue
    /\ session.technicalScore = NoValue
    /\ session.confidenceScore = NoValue
    /\ session.communicationScore = NoValue
    /\ session.duration = NoValue
    /\ session.completedAt = NoValue

\* C13: after every step, a session whose status is in_progress has its four
\* scores, duration and completedAt null; and a step that makes any of these
\* columns of a session non-null is the step that takes the session's status
\* from in_progress to completed.
C13_ScoresNullUntilCompleted ==
    [][/\ \A i \in 1..Len(sessions') :
            sessions'[i].status = "in_progress" => Unset(sessions'[i])
       /\ \A i \in 1..Len(sessions) :
            (Unset(sessions[i]) /\ ~Unset(sessions'[i]))
                => /\ sessions[i].status = "in_progress"
                   /\ sessions'[i].status = "completed"
                   /\ sessions'[i].overallScore # NoValue
                   /\ sessions'[i].technicalScore # NoValue
                   /\ sessions'[i].confidenceScore # NoValue
                   /\ sessions'[i].communicationScore # NoValue
                   /\ sessions'[i].duration # NoValue
                   /\ sessions'[i].completedAt # NoValue]_vars

\* A session that holds an answer is still in_progress with null scores,
\* right after the other session was completed and got its scores.
C13_Witness ==
    \E i, j \in 1..Len(sessions) :
        /\ sessions[i].status = "in_progress"
        /\ sessions[i].answeredQuestions = 1
        /\ Unset(sessions[i])
        /\ result = Reply("complete", sessions[j].userId, j, 200)
        /\ sessions[j].status = "completed"
        /\ ~Unset(sessions[j])

C16_OneFeedbackPerComplete ==
    [][IF result'.op = "complete" /\ result'.code = 200
       THEN /\ Len(feedback') = Len(feedback) + 1
            /\ SubSeq(feedback', 1, Len(feedback)) = feedback
            /\ feedback'[Len(feedback')].sessionId = result'.sessionId
            /\ feedback'[Len(feedback')].type = "overall"
       ELSE feedback' = feedback]_vars

\* A session has just been completed for the second time and holds two
\* overall Feedback rows, while the other session, never completed, holds none.
C16_Witness ==
    \E j \in 1..Len(sessions) :
        /\ JustCompleted
        /\ j # result.sessionId
        /\ sessions[j].status = "in_progress"
        /\ CountFeedback(j) = 0
        /\ Cardinality({k \in 1..Len(feedback) :
                /\ feedback[k].sessionId = result.sessionId
                /\ feedback[k].type = "overall"}) = 2

\* The Feedback row written by the complete that was just answered.
LastFeedback == feedback[Len(feedback)]

\* The mean of the response scores of the session just completed is at least
\* the given score (in hundredths); no responses count as a mean of 0.
MeanAtLeast(score) ==
    LET n == CountResponses(responses, result.sessionId)
    IN  ScoreSum(responses, result.sessionId) >= score * (IF n = 0 THEN 1 ELSE n)

\* C17: right after a successful complete, the narrative of the Feedback row
\* it wrote is the strong-performance message when the overall score (the mean
\* of the session's response scores) is >= 80, the encouraging message when it
\* is >= 60 and < 80, and the improvement-focused message when it is < 60.
C17_NarrativeByOverallScore ==
    JustCompleted =>
        LastFeedback.feedback =
            (IF MeanAtLeast(8000) THEN StrongFeedback
             ELSE IF MeanAtLeast(6000) THEN EncouragingFeedback
             ELSE ImprovementFeedback)

\* A session whose two responses scored 100 and 60 has just been completed:
\* the overall score is exactly 80 and the narrative is the strong one.
C17_Witness ==
    /\ JustCompleted
    /\ CountResponses(responses, result.sessionId) = 2
    /\ ScoreSum(responses, result.sessionId) = 16000
    /\ sessions[result.sessionId].overallScore = 8000
    /\ LastFeedback.feedback = StrongFeedback

\* C18 as claimed: the strengths and weaknesses follow the buckets of the
\* narrative: the three-item strengths and the single weakness for every
\* overall score >= 60, the two-item strengths and three-item weaknesses only
\* below 60.
C18_ListsFollowNarrative ==
    JustCompleted =>
        IF MeanAtLeast(6000)
        THEN /\ LastFeedback.strengths = StrongStrengths
             /\ LastFeedback.weaknesses = MinorWeaknesses
        ELSE /\ LastFeedback.strengths = BasicStrengths
             /\ LastFeedback.weaknesses = DeepWeaknesses

\* C18 as amended: the strengths and weaknesses change at 70: the three-item
\* strengths and the single weakness for an overall score >= 70, the two-item
\* strengths and the three-item weaknesses below 70, so that the encouraging
\* narrative comes with the latter for scores in [60, 70).
C18_ListsChangeAtSeventy ==
    JustCompleted =>
        /\ IF MeanAtLeast(7000)
           THEN /\ LastFeedback.strengths = StrongStrengths
                /\ LastFeedback.weaknesses = MinorWeaknesses
           ELSE /\ LastFeedback.strengths = BasicStrengths
                /\ LastFeedback.weaknesses = DeepWeaknesses
        /\ (MeanAtLeast(6000) /\ ~MeanAtLeast(7000))
              => LastFeedback.feedback = EncouragingFeedback

\* A session whose only response scored 60 has just been completed: the
\* narrative is the encouraging one, the strengths are the two-item list.
C18_Witness ==
    /\ JustCompleted
    /\ CountResponses(responses, result.sessionId) = 1
    /\ ScoreSum(responses, result.sessionId) = 6000
    /\ LastFeedback.feedback = EncouragingFeedback
    /\ LastFeedback.strengths = BasicStrengths
    /\ LastFeedback.weaknesses = DeepWeaknesses

\* The session has a Feedback row of type overall.
HasOverallFeedback(sessionId) ==
    \E k \in 1..Len(feedback) :
        feedback[k].sessionId = sessionId /\ feedback[k].type = "overall"

\* A complete call stands between its update of the session and its insert
\* of the feedback.
CompleteMidWrite(sessionId) ==
    \E c \in Slots :
        /\ calls[c].op = "complete"
        /\ calls[c].sessionId = sessionId
        /\ calls[c].pc = "feedback"

C19_FailureLeavesStoreUnchanged ==
    [][(/\ calls[1].op \in {"submitAnswer", "complete"}
        /\ calls'[1].pc = "idle"
        /\ result'.code # 200)
          => store' = calls[1].before]_vars

\* C20 as claimed: with getProgress and updateGoals interleaved store call by
\* store call, every user has at most one Progress row in every state.
C20_OneProgressPerUser ==
    \A userId \in Users : Cardinality(ProgressOf(userId)) <= 1

\* The scores of the responses stored for a session, oldest first.
RECURSIVE ScoresOf(_, _)
ScoresOf(table, sessionId) ==
    IF table = <<>> THEN <<>>
    ELSE (IF Head(table).sessionId = sessionId
          THEN <<Head(table).score>> ELSE <<>>)
         \o ScoresOf(Tail(table), sessionId)

\* The stored value is within 0.005 of the mean of the first k scores
\* (of 0 when k is 0).
MeanOfFirst(stored, scores, k) ==
    LET d == IF k = 0 THEN 1 ELSE k
        sum == Sum(SubSeq(scores, 1, k))
    IN  /\ 2 * d * stored - d <= 2 * sum
        /\ 2 * sum <= 2 * d * stored + d

\* No call is in flight.
Quiet == \A c \in Slots : calls[c].pc = "idle"

\* C24: with submitAnswer and complete interleaved store call by store call,
\* a completed session's stored overallScore is always the mean of the
\* responses that one complete call loaded, which are the oldest responses
\* stored for the session and need not be all of them: a response written
\* after the load, to a session that is meanwhile completed, is left out.
C24_ScoreOfLoadedResponses ==
    \A i \in 1..Len(sessions) :
        sessions[i].overallScore # NoValue
            => \E k \in 0..CountResponses(responses, i) :
                  MeanOfFirst(sessions[i].overallScore,
                              ScoresOf(responses, i), k)

\* Both calls have returned: the session is completed with overallScore 0,
\* computed from no response, and holds a response of score 100 that
\* submitAnswer wrote after the completion and counted in answeredQuestions.
C24_Witness ==
    \E i \in 1..Len(sessions) :
        /\ Quiet
        /\ sessions[i].status = "completed"
        /\ sessions[i].overallScore = 0
        /\ HasOverallFeedback(i)
        /\ ScoresOf(responses, i) = <<10000>>
        /\ sessions[i].answeredQuestions = 1

\* The handlers interleaved store call by store call, where a call that has
\* begun goes on: the server keeps serving, so some enabled step is
\* eventually taken.
SpecStepsFair == SpecSteps /\ WF_vars(StepsNext)

\* The submitAnswer calls on the session that have inserted their response
\* and not yet raised the counter.
CountingCalls(sessionId) ==
    Cardinality({c \in Slots : /\ calls[c].op = "submitAnswer"
                               /\ calls[c].sessionId = sessionId
                               /\ calls[c].pc = "count"})

\* No call is in flight, and a session holds the responses of two
\* submitAnswer calls with an answeredQuestions other than two.
DriftAfterBoth ==
    \E i \in 1..Len(sessions) :
        /\ Quiet
        /\ CountResponses(responses, i) = 2
        /\ sessions[i].answeredQuestions # 2

\* C25 as claimed: two submitAnswer calls on the same in_progress session,
\* interleaved store call by store call, come to a state after both have
\* returned successfully in which the session's answeredQuestions differs
\* from the number of Responses stored for it.
C25_CounterDriftsAfterBoth == <>DriftAfterBoth

\* C25 as amended: in every state of every interleaving, the number of
\* Responses stored for a session is its answeredQuestions plus the number of
\* submitAnswer calls that stand between their insert and their update of the
\* counter; once both calls have returned the two numbers are equal.
C25_CounterFollowsResponses ==
    \A i \in 1..Len(sessions) :
        CountResponses(responses, i) =
            sessions[i].answeredQuestions + CountingCalls(i)

\* Two submitAnswer calls on the same session have both inserted their
\* response and neither has raised the counter yet: two Responses,
\* answeredQuestions 0.
C25_Witness ==
    \E i \in 1..Len(sessions) :
        /\ CountingCalls(i) = 2
        /\ CountResponses(responses, i) = 2
        /\ sessions[i].answeredQuestions = 0
        /\ sessions[i].status = "in_progress"

\* C26: a submitAnswer step by the owner of an in_progress session for a
\* question that exists is answered 200, appends one Response for that
\* session and question and raises answeredQuestions by one, whatever the
\* Responses already stored and whatever answeredQuestions and totalQuestions
\* are: the handler compares neither the counter with the total nor the
\* question with the questions already answered.
C26_ActiveSubmitSucceeds ==
    [][(/\ result'.op = "submitAnswer"
        /\ OwnedBy(result'.sessionId, result'.userId)
        /\ sessions[result'.sessionId].status = "in_progress")
          => LET userId == result'.userId
                 sessionId == result'.sessionId
             IN  \A questionId \in DOMAIN Questions, userAnswer \in UserAnswers :
                    SubmitAnswer(userId, sessionId, questionId, userAnswer)
                      => /\ result'.code = 200
                         /\ Len(responses') = Len(responses) + 1
                         /\ responses'[Len(responses')].sessionId = sessionId
                         /\ responses'[Len(responses')].questionId = questionId
                         /\ sessions'[sessionId].answeredQuestions =
                                sessions[sessionId].answeredQuestions + 1
                         /\ sessions'[sessionId].status = "in_progress"]_vars

\* A session started without a question list (totalQuestions 0) has just
\* taken a second answer to the same question: answeredQuestions is 2 and
\* the session holds two Responses for that question.
C26_Witness ==
    \E i \in 1..Len(sessions) :
        /\ result = Reply("submitAnswer", sessions[i].userId, i, 200)
        /\ sessions[i].status = "in_progress"
        /\ sessions[i].totalQuestions = 0
        /\ sessions[i].answeredQuestions = 2
        /\ Len(responses) = 2
        /\ responses[1].sessionId = i
        /\ responses[2].sessionId = i
        /\ responses[1].questionId = responses[2].questionId

\* C27: in every step of every operation, with the handlers interleaved
\* store call by store call, each session's answeredQuestions is at least 0
\* and does not decrease and its totalQuestions stays what start stored; the
\* only step that changes answeredQuestions is the counter update of a
\* submitAnswer on that session, which raises it by one and ends the call
\* with 200, so that complete and the submitAnswer calls that fail leave
\* both numbers unchanged.
C27_CounterMonotonic ==
    [][/\ Len(sessions') >= Len(sessions)
       /\ \A i \in 1..Len(sessions') : sessions'[i].answeredQuestions >= 0
       /\ \A i \in 1..Len(sessions) :
            /\ sessions'[i].answeredQuestions >= sessions[i].answeredQuestions
            /\ sessions'[i].totalQuestions = sessions[i].totalQuestions
            /\ sessions'[i].answeredQuestions # sessions[i].answeredQuestions
                  => /\ result' = Reply("submitAnswer", sessions[i].userId,
                                        i, 200)
                     /\ sessions'[i].answeredQuestions =
                            sessions[i].answeredQuestions + 1]_vars

\* A session of two questions holding one answer has been completed, and
\* a further submitAnswer on it has just been refused with 400: the counter
\* is still 1 and totalQuestions still 2.
C27_Witness ==
    \E i \in 1..Len(sessions) :
        /\ Quiet
        /\ result = Reply("submitAnswer", sessions[i].userId, i, 400)
        /\ sessions[i].status = "completed"
        /\ sessions[i].answeredQuestions = 1
        /\ CountResponses(responses, i) = 1
        /\ sessions[i].totalQuestions = 2

\* C29 as claimed: with the operations run one at a time, in every state
\* every completed session's stored overallScore is exactly the mean of the
\* scores of all Responses stored for that session (0 if none).
C29_CompletedScoreIsExactMean ==
    \A i \in 1..Len(sessions) :
        sessions[i].status = "completed"
            => /\ sessions[i].overallScore * CountResponses(responses, i)
                    = ScoreSum(responses, i)
               /\ CountResponses(responses, i) = 0
                    => sessions[i].overallScore = 0

\* C29 as amended: with the operations run one at a time, in every state
\* every completed session's stored overallScore is the mean of the scores of
\* all Responses stored for that session rounded to two decimals (0 if none),
\* that is, within 0.005 of the mean.
C29_CompletedScoreIsRoundedMean ==
    \A i \in 1..Len(sessions) :
        sessions[i].status = "completed"
            => /\ MeanOfFirst(sessions[i].overallScore, ScoresOf(responses, i),
                              CountResponses(responses, i))
               /\ CountResponses(responses, i) = 0
                    => sessions[i].overallScore = 0

\* A session whose two responses, 66.67 and 100, have the mean 83.335 was
\* completed with overallScore 83.34, and a session was started after that.
C29_Witness ==
    \E i \in 1..Len(sessions) :
        /\ sessions[i].status = "completed"
        /\ CountResponses(responses, i) = 2
        /\ ScoreSum(responses, i) = 16667
        /\ sessions[i].overallScore = 8334
        /\ result.op = "start"
        /\ result.sessionId # i

\* C30: with getProgress and updateGoals interleaved store call by store
\* call and the goals of every request either left out or within the bounds
\* of the route's validation, every Progress row has weeklyGoal >= 1 and
\* monthlyGoal >= 1 in every state, so the goal by which getProgress divides
\* is never 0.
C30_GoalsAtLeastOne ==
    \A k \in 1..Len(progress) :
        /\ progress[k].weeklyGoal >= 1
        /\ progress[k].monthlyGoal >= 1

\* A user's row created by getProgress with the goals 3 and 12 was then
\* given the smallest weekly goal the validation admits, the monthly goal
\* left out, and read again: weeklyGoal 1, monthlyGoal 12.
C30_Witness ==
    \E k \in 1..Len(progress) :
        /\ Quiet
        /\ Cardinality(ProgressOf(progress[k].userId)) = 1
        /\ progress[k].weeklyGoal = 1
        /\ progress[k].monthlyGoal = 12
        /\ result = Reply("getProgress", progress[k].userId, 0, 200)

\* The caller's sessions with status completed whose completedAt is at or
\* after now minus the given number of days.
CompletedWithin(userId, days) ==
    Cardinality({i \in 1..Len(sessions) :
                    /\ sessions[i].userId = userId
                    /\ sessions[i].status = "completed"
                    /\ sessions[i].completedAt + days * 24 * 60 >= now})

\* percentage is completed / goal * 100 rounded to the nearest integer, a
\* half going up.
IsPercentage(percentage, completed, goal) ==
    /\ 2 * goal * percentage <= 200 * completed + goal
    /\ 200 * completed + goal < 2 * goal * percentage + 2 * goal

\* C21: right after getProgress answered 200, the weekly and the monthly
\* figures it reported are: completed, the number of the caller's sessions
\* with status completed and completedAt at or after now minus 7 (30) days;
\* goal, the weeklyGoal (monthlyGoal) of the caller's Progress row; and
\* percentage, round(completed / goal * 100). Sessions in progress and
\* sessions of other users are not counted.
C21_ProgressCountsWindow ==
    (result.op = "getProgress" /\ result.code = 200) =>
        \E k \in ProgressOf(result.userId) :
            LET weekly == result.data.weeklyProgress
                monthly == result.data.monthlyProgress
            IN  /\ weekly.completed = CompletedWithin(result.userId, 7)
                /\ weekly.goal = progress[k].weeklyGoal
                /\ IsPercentage(weekly.percentage, weekly.completed, weekly.goal)
                /\ monthly.completed = CompletedWithin(result.userId, 30)
                /\ monthly.goal = progress[k].monthlyGoal
                /\ IsPercentage(monthly.percentage, monthly.completed,
                                monthly.goal)

\* The caller has two completed sessions, one of them completed exactly 7
\* days ago, and the goals 3 and 12: getProgress has reported 2 of 3, 67
\* percent, for the week and 2 of 12, 17 percent, for the month.
C21_Witness ==
    /\ result.op = "getProgress"
    /\ result.code = 200
    /\ \E i \in 1..Len(sessions) :
          /\ sessions[i].userId = result.userId
          /\ sessions[i].status = "completed"
          /\ sessions[i].completedAt = now - Week
    /\ result.data.weeklyProgress =
          [completed |-> 2, goal |-> 3, percentage |-> 67]
    /\ result.data.monthlyProgress =
          [completed |-> 2, goal |-> 12, percentage |-> 17]

\* C22 as claimed: right after getPerformanceAnalytics answered 200, the
\* improvementRate it reported is a finite number for every session history:
\* 0 when the sessions selected fall on fewer than two dates, and otherwise
\* (mean overall of the last date - mean overall of the first date) / mean
\* overall of the first date * 100, to two decimals.
C22_ImprovementRateFinite ==
    (result.op = "getPerformanceAnalytics" /\ result.code = 200) =>
        LET rate == result.data.improvementRate
            means == result.data.performanceData
            dates == DOMAIN means
            first == means[Least(dates)]
            last == means[Greatest(dates)]
            num == 10000 * (last[1] * first[2] - first[1] * last[2])
            den == first[1] * last[2]
        IN  /\ rate.kind = "number"
            /\ Cardinality(dates) < 2 => rate.hundredths = 0
            /\ (Cardinality(dates) >= 2 /\ den > 0)
                  => /\ 2 * den * rate.hundredths <= 2 * num + den
                     /\ 2 * num + den < 2 * den * rate.hundredths + 2 * den

\* The stored responses of the user's completed sessions of the given type.
SkillResponses(userId, type) ==
    {k \in 1..Len(responses) :
        /\ sessions[responses[k].sessionId].userId = userId
        /\ sessions[responses[k].sessionId].status = "completed"
        /\ sessions[responses[k].sessionId].type = type}

\* C23: right after getSkillAnalysis answered 200, the strengthLevel it
\* reported for each skill follows the accuracy correctAnswers /
\* totalQuestions of the skill's responses with inclusive lower bounds:
\* Strong from 0.8, Good from 0.6 to below 0.8, Fair from 0.4 to below 0.6,
\* Needs Improvement below 0.4.
C23_StrengthLevelBounds ==
    (result.op = "getSkillAnalysis" /\ result.code = 200) =>
        \A skill \in DOMAIN result.data.skillAnalysis :
            LET level == result.data.skillAnalysis[skill].strengthLevel
                total == Cardinality(SkillResponses(result.userId, skill))
                correct == Cardinality({k \in SkillResponses(result.userId, skill) :
                                            responses[k].isCorrect})
            IN  /\ total > 0
                /\ level = "Strong" <=> 5 * correct >= 4 * total
                /\ level = "Good" <=> (/\ 5 * correct >= 3 * total
                                       /\ 5 * correct < 4 * total)
                /\ level = "Fair" <=> (/\ 5 * correct >= 2 * total
                                       /\ 5 * correct < 3 * total)
                /\ level = "Needs Improvement" <=> 5 * correct < 2 * total

\* A completed session holds five responses, four of them correct:
\* getSkillAnalysis has reported the accuracy 80 and the level Strong.
C23_Witness ==
    /\ result.op = "getSkillAnalysis"
    /\ result.code = 200
    /\ Len(responses) = 5
    /\ Cardinality({k \in 1..Len(responses) : responses[k].isCorrect}) = 4
    /\ "technical" \in DOMAIN result.data.skillAnalysis
    /\ result.data.skillAnalysis["technical"].totalQuestions = 5
    /\ result.data.skillAnalysis["technical"].accuracy = 80
    /\ result.data.skillAnalysis["technical"].strengthLevel = "Strong"

\* The user has a Progress row.
HasProgress(userId) == \E k \in 1..Len(progress) : progress[k].userId = userId

\* C28: a step of getProgress, getPerformanceAnalytics or getSkillAnalysis
\* leaves the Session, Response and Feedback tables as they are, and leaves
\* the Progress table as it is too unless it is a getProgress of a caller
\* without a Progress row, which appends one row, the caller's.
C28_AnalyticsReadOnly ==
    [][result'.op \in {"getProgress", "getPerformanceAnalytics",
                       "getSkillAnalysis"}
          => /\ store' = store
             /\ \/ progress' = progress
                \/ /\ result'.op = "getProgress"
                   /\ ~HasProgress(result'.userId)
                   /\ Len(progress') = Len(progress) + 1
                   /\ SubSeq(progress', 1, Len(progress)) = progress
                   /\ progress'[Len(progress')].userId = result'.userId]_vars

\* getProgress has answered a caller whose row is the second of the table,
\* with the goals 3 and 12 of a new row, over a store that holds a completed
\* session of the caller with its response and its feedback.
C28_Witness ==
    /\ result.op = "getProgress"
    /\ result.code = 200
    /\ Len(progress) = 2
    /\ progress[2].userId = result.userId
    /\ progress[2].weeklyGoal = 3
    /\ progress[2].monthlyGoal = 12
    /\ \E i \in 1..Len(sessions) :
          /\ sessions[i].userId = result.userId
          /\ sessions[i].status = "completed"
          /\ CountResponses(responses, i) = 1
          /\ HasOverallFeedback(i)

====
